---- MODULE Spec2Model ----
(***************************************************************************)
(* The checkout store of checkoutbot/store.py (Cart, Register, Store) and  *)
(* the request handlers of checkoutbot/api.py that drive it.               *)
(*                                                                         *)
(* A Register's customer_cart_map is a Python dict: it is modelled as the  *)
(* sequence of its carts in insertion order (the order dict.values()       *)
(* iterates in).  Store.register_map is a dict that is never iterated: it  *)
(* is modelled as a function whose domain is its set of keys, holding the  *)
(* register_id of the Register object it refers to.                        *)
(*                                                                         *)
(* Every request runs in a thread of its own.  A thread's steps are the    *)
(* points at which the code reads or writes shared state or takes or       *)
(* releases a lock; the body of a Register operation between its           *)
(* lockRegister() and unlockRegister() is one step.                        *)
(***************************************************************************)
EXTENDS Naturals, Integers, Sequences, FiniteSets, TLC

\* ---- bounds of the model ----
\* number of registers the store is built with (api.py builds Store(25))
NumRegisters == 2
NumCustomers == 3
\* assignItem calls made since the last reset, one request at a time
MaxAssigns == 4
\* the same, when requests run concurrently
MaxConcAssigns == 2

\* ---- program constants ----
\* lowest_utilized_register = None
None == -1
\* sys.maxsize (2^63 - 1 in CPython; any value above every reachable total)
maxsize == 2147483647

RegisterIds == 0 .. (NumRegisters - 1)
Customers == 1 .. NumCustomers
\* item ids are opaque to the code: two tell the order of the items of a cart
Items == {1, 2}

\* a lock that no thread has acquired
Free == 0
\* the thread of the request in progress, when requests arrive one at a time
SeqThreads == {1}
\* two requests in progress at once
ConcThreads == {1, 2}
\* customers of concurrent requests: as many as assignItem calls can give carts
ConcCustomers == 1 .. MaxConcAssigns
\* item ids are opaque to the code: concurrent requests all carry the same one
ConcItems == {1}

EmptyMap == [x \in {} |-> x]

VARIABLES
    registers,      \* Store.registers: register_id -> customer_cart_map (carts in insertion order)
    lock,           \* Register.lock: register_id -> the thread that acquired it, or Free
    register_map,   \* Store.register_map: customer_id -> register_id
    thread,         \* per request thread: position in the code and local variables
    calls,          \* assignItem calls made since the last reset
    obs             \* observer of completed calls (history, not program state)

vars == <<registers, lock, register_map, thread, calls, obs>>

\* ------------------------------------------------------------------ Cart

\* Cart(customer_id) followed by cart.addItem(item_id)
Cart(customer_id, item_id) == [customer_id |-> customer_id, items |-> <<item_id>>]

size(cart) == Len(cart.items)

addItem(cart, item_id) == [cart EXCEPT !.items = Append(@, item_id)]

\* -------------------------------------------------------------- Register

\* customer_id in self.customer_cart_map
HasCart(m, customer_id) == \E j \in 1 .. Len(m) : m[j].customer_id = customer_id

CartIndex(m, customer_id) == CHOOSE j \in 1 .. Len(m) : m[j].customer_id = customer_id

\* self.customer_cart_map[customer_id]
CartOf(m, customer_id) == m[CartIndex(m, customer_id)]

\* addItemToCart that stores a new cart under the key whether or not one exists
addItemToCartOverwrite(m, customer_id, item_id) ==
    IF HasCart(m, customer_id)
    THEN [m EXCEPT ![CartIndex(m, customer_id)] = Cart(customer_id, item_id)]
    ELSE Append(m, Cart(customer_id, item_id))

\* the body of Register.addItemToCart, between lockRegister and unlockRegister
addItemToCart(m, customer_id, item_id) ==
    IF HasCart(m, customer_id)
    THEN [m EXCEPT ![CartIndex(m, customer_id)] = addItem(@, item_id)]
    ELSE Append(m, Cart(customer_id, item_id))

\* checkoutCart that drops the customer's cart and every cart added after it
checkoutCartTruncating(m, customer_id) ==
    IF HasCart(m, customer_id)
    THEN SubSeq(m, 1, CartIndex(m, customer_id) - 1)
    ELSE m

\* del self.customer_cart_map[customer_id]
checkoutCart(m, customer_id) ==
    LET keep(cart) == cart.customer_id # customer_id
    IN  SelectSeq(m, keep)

RECURSIVE getTotalItems(_)
getTotalItems(m) ==
    IF m = <<>> THEN 0 ELSE getTotalItems(SubSeq(m, 1, Len(m) - 1)) + size(m[Len(m)])

\* [customer_id] * n
Repeat(customer_id, n) == [j \in 1 .. n |-> customer_id]

\* getRegisterState that adds one entry per cart instead of one per item
RECURSIVE getRegisterStatePerCart(_)
getRegisterStatePerCart(m) ==
    IF m = <<>> THEN <<>>
    ELSE getRegisterStatePerCart(SubSeq(m, 1, Len(m) - 1)) \o <<m[Len(m)].customer_id>>

RECURSIVE getRegisterState(_)
getRegisterState(m) ==
    IF m = <<>> THEN <<>>
    ELSE getRegisterState(SubSeq(m, 1, Len(m) - 1))
             \o Repeat(m[Len(m)].customer_id, size(m[Len(m)]))

\* ----------------------------------------------------------------- Store

\* Store.__init__
NewRegisters == [r \in RegisterIds |-> <<>>]
NewLocks == [r \in RegisterIds |-> Free]

\* self.register_map[customer_id] = register
MapPut(m, customer_id, r) ==
    [c \in (DOMAIN m) \cup {customer_id} |-> IF c = customer_id THEN r ELSE m[c]]

\* del self.register_map[customer_id]
MapDel(m, customer_id) == [c \in (DOMAIN m) \ {customer_id} |-> m[c]]

\* a thread that runs no request: its locals are gone, its last result is kept
IdleThread ==
    [pc |-> "idle", op |-> "none", customer_id |-> 0, item_id |-> 0,
     register |-> None, k |-> 0, lowest_items |-> maxsize,
     lowest_utilized_register |-> None, first |-> FALSE,
     state |-> EmptyMap, ret |-> "none"]

Begin(op, customer_id, item_id, pc) ==
    [IdleThread EXCEPT !.pc = pc, !.op = op, !.customer_id = customer_id,
                       !.item_id = item_id]

\* the request returns or raises: `ret` is "ok" or the exception
Return(me, ret) ==
    [IdleThread EXCEPT !.op = me.op, !.customer_id = me.customer_id,
                       !.item_id = me.item_id, !.state = me.state, !.ret = ret]

InitWith(T) ==
    /\ registers = NewRegisters
    /\ lock = NewLocks
    /\ register_map = EmptyMap
    /\ calls = 0
    /\ obs = [assigned |-> 0, removed |-> 0, pre_map |-> EmptyMap,
              pre_registers |-> NewRegisters,
              checked_out |-> 0, reset_discarded |-> None]
    /\ thread = [t \in T |-> IdleThread]

Init == InitWith(SeqThreads)

InitConc == InitWith(ConcThreads)

\* ------------------------------------------------------- request handlers

Set(t, rec) == thread' = [thread EXCEPT ![t] = rec]

Quiescent == \A u \in DOMAIN thread : thread[u].pc = "idle"

\* api.add: store.assignItem(customer_id, item_id) is entered
CallAssignItem(t, customer_id, item_id) ==
    /\ thread[t].pc = "idle"
    /\ Set(t, Begin("assignItem", customer_id, item_id, "ai_in"))
    /\ calls' = calls + 1
    /\ UNCHANGED <<registers, lock, register_map>>

\* api.checkout: store.checkoutCustomer(customer_id) is entered
CallCheckoutCustomer(t, customer_id) ==
    /\ thread[t].pc = "idle"
    /\ Set(t, Begin("checkoutCustomer", customer_id, 0, "co_in"))
    /\ UNCHANGED <<registers, lock, register_map, calls>>

\* store.getAllRegisterState() is entered
CallGetAllRegisterState(t) ==
    /\ thread[t].pc = "idle"
    /\ Set(t, Begin("getAllRegisterState", 0, 0, "gs_lock"))
    /\ UNCHANGED <<registers, lock, register_map, calls>>

\* reset that clears the routing table and keeps the registers
ResetKeepsRegisters(t) ==
    /\ \A u \in DOMAIN thread : thread[u].pc = "idle"
    /\ register_map' = EmptyMap
    /\ calls' = 0
    /\ Set(t, Return(Begin("reset", 0, 0, "idle"), "ok"))
    /\ UNCHANGED <<registers, lock>>

\* api.reset: store = Store(25), taken while no other request is in flight
Reset(t) ==
    /\ Quiescent
    /\ registers' = NewRegisters
    /\ lock' = NewLocks
    /\ register_map' = EmptyMap
    /\ calls' = 0
    /\ Set(t, Return(Begin("reset", 0, 0, "idle"), "ok"))

\* assignItem that looks for the least utilized register on every call
AssignItemInNoSticky(t) ==
    LET me == thread[t] IN
    /\ me.pc = "ai_in"
    /\ Set(t, [me EXCEPT !.pc = "lu_lock", !.first = TRUE, !.k = 0])
    /\ UNCHANGED <<registers, lock, register_map, calls>>

\* Store.assignItem: if (customer_id in self.register_map)
AssignItemIn(t) ==
    LET me == thread[t] IN
    /\ me.pc = "ai_in"
    /\ IF me.customer_id \in DOMAIN register_map
       THEN Set(t, [me EXCEPT !.pc = "ai_get"])
       ELSE Set(t, [me EXCEPT !.pc = "lu_lock", !.first = TRUE, !.k = 0])
    /\ UNCHANGED <<registers, lock, register_map, calls>>

\* assignItem that runs the store-wide scan for a known customer too
AssignItemGetLocksAll(t) ==
    LET me == thread[t] IN
    /\ me.pc = "ai_get"
    /\ IF me.customer_id \in DOMAIN register_map
       THEN Set(t, [me EXCEPT !.pc = "lu_lock", !.k = 0])
       ELSE Set(t, Return(me, "KeyError"))
    /\ UNCHANGED <<registers, lock, register_map, calls>>

\* Store.assignItem: register = self.register_map[customer_id]
AssignItemGet(t) ==
    LET me == thread[t] IN
    /\ me.pc = "ai_get"
    /\ IF me.customer_id \in DOMAIN register_map
       THEN Set(t, [me EXCEPT !.pc = "add_lock",
                              !.register = register_map[me.customer_id]])
       ELSE Set(t, Return(me, "KeyError"))
    /\ UNCHANGED <<registers, lock, register_map, calls>>

\* lockRegisters that leaves its loop after the first register
LockRegistersFirstOnly(t) ==
    LET me == thread[t] IN
    /\ me.pc \in {"lu_lock", "gs_lock"}
    /\ lock[me.k] = Free
    /\ lock' = [lock EXCEPT ![me.k] = t]
    /\ Set(t, [me EXCEPT !.k = 0,
                         !.pc = IF me.pc = "lu_lock" THEN "lu_scan" ELSE "gs_read",
                         !.lowest_items = maxsize,
                         !.lowest_utilized_register = None])
    /\ UNCHANGED <<registers, register_map, calls>>

\* lockRegisters that getAllRegisterState runs from the last register down
LockRegistersDescending(t) ==
    LET me == thread[t]
        r == IF me.pc = "gs_lock" THEN NumRegisters - 1 - me.k ELSE me.k
        last == me.k = NumRegisters - 1
    IN
    /\ me.pc \in {"lu_lock", "gs_lock"}
    /\ lock[r] = Free
    /\ lock' = [lock EXCEPT ![r] = t]
    /\ Set(t, IF last
              THEN [me EXCEPT !.k = 0,
                              !.pc = IF me.pc = "lu_lock" THEN "lu_scan" ELSE "gs_read",
                              !.lowest_items = maxsize,
                              !.lowest_utilized_register = None]
              ELSE [me EXCEPT !.k = me.k + 1])
    /\ UNCHANGED <<registers, register_map, calls>>

\* Store.lockRegisters: one register.lockRegister() of the loop
LockRegisters(t) ==
    LET me == thread[t] IN
    /\ me.pc \in {"lu_lock", "gs_lock"}
    /\ lock[me.k] = Free
    /\ lock' = [lock EXCEPT ![me.k] = t]
    /\ IF me.k + 1 < NumRegisters
       THEN Set(t, [me EXCEPT !.k = me.k + 1])
       ELSE Set(t, [me EXCEPT !.k = 0,
                              !.pc = IF me.pc = "lu_lock" THEN "lu_scan" ELSE "gs_read",
                              !.lowest_items = maxsize,
                              !.lowest_utilized_register = None])
    /\ UNCHANGED <<registers, register_map, calls>>

\* getLeastUtilizedRegister without the early exit and with >= for >: the last
\* register with the lowest total wins
LeastUtilizedScanLast(t) ==
    LET me == thread[t]
        total_items == getTotalItems(registers[me.k])
        lower == me.lowest_items >= total_items
        candidate == IF lower THEN me.k ELSE me.lowest_utilized_register
        lowest == IF lower THEN total_items ELSE me.lowest_items
    IN
    /\ me.pc = "lu_scan"
    /\ IF me.k + 1 < NumRegisters
       THEN Set(t, [me EXCEPT !.k = me.k + 1, !.lowest_items = lowest,
                              !.lowest_utilized_register = candidate])
       ELSE Set(t, [me EXCEPT !.pc = "lu_unlock", !.register = candidate, !.k = 0,
                              !.lowest_items = lowest,
                              !.lowest_utilized_register = candidate])
    /\ UNCHANGED <<registers, lock, register_map, calls>>

\* getLeastUtilizedRegister whose comparison is turned round
LeastUtilizedScanReversed(t) ==
    LET me == thread[t]
        total_items == getTotalItems(registers[me.k])
        lower == me.lowest_items < total_items
        candidate == IF lower THEN me.k ELSE me.lowest_utilized_register
        lowest == IF lower THEN total_items ELSE me.lowest_items
    IN
    /\ me.pc = "lu_scan"
    /\ IF total_items = 0
       THEN Set(t, [me EXCEPT !.pc = "lu_unlock", !.register = me.k, !.k = 0])
       ELSE IF me.k + 1 < NumRegisters
       THEN Set(t, [me EXCEPT !.k = me.k + 1, !.lowest_items = lowest,
                              !.lowest_utilized_register = candidate])
       ELSE IF candidate = None
       THEN Set(t, Return(me, "InvalidRegisterState"))
       ELSE Set(t, [me EXCEPT !.pc = "lu_unlock", !.register = candidate, !.k = 0,
                              !.lowest_items = lowest,
                              !.lowest_utilized_register = candidate])
    /\ UNCHANGED <<registers, lock, register_map, calls>>

\* getLeastUtilizedRegister that lets a later register with an equal count
\* replace the candidate
LeastUtilizedScanNonStrict(t) ==
    LET me == thread[t]
        total_items == getTotalItems(registers[me.k])
        lower == me.lowest_items >= total_items
        candidate == IF lower THEN me.k ELSE me.lowest_utilized_register
        lowest == IF lower THEN total_items ELSE me.lowest_items
    IN
    /\ me.pc = "lu_scan"
    /\ IF total_items = 0
       THEN Set(t, [me EXCEPT !.pc = "lu_unlock", !.register = me.k, !.k = 0])
       ELSE IF me.k + 1 < NumRegisters
       THEN Set(t, [me EXCEPT !.k = me.k + 1, !.lowest_items = lowest,
                              !.lowest_utilized_register = candidate])
       ELSE IF candidate = None
       THEN Set(t, Return(me, "InvalidRegisterState"))
       ELSE Set(t, [me EXCEPT !.pc = "lu_unlock", !.register = candidate, !.k = 0,
                              !.lowest_items = lowest,
                              !.lowest_utilized_register = candidate])
    /\ UNCHANGED <<registers, lock, register_map, calls>>

\* Store.getLeastUtilizedRegister: one iteration of `for register in self.registers`
\* and, after the last one, the check of the candidate
LeastUtilizedScan(t) ==
    LET me == thread[t]
        total_items == getTotalItems(registers[me.k])
        lower == me.lowest_items > total_items
        candidate == IF lower THEN me.k ELSE me.lowest_utilized_register
        lowest == IF lower THEN total_items ELSE me.lowest_items
    IN
    /\ me.pc = "lu_scan"
    /\ IF total_items = 0
       THEN Set(t, [me EXCEPT !.pc = "lu_unlock", !.register = me.k, !.k = 0])
       ELSE IF me.k + 1 < NumRegisters
       THEN Set(t, [me EXCEPT !.k = me.k + 1, !.lowest_items = lowest,
                              !.lowest_utilized_register = candidate])
       ELSE IF candidate = None
       THEN Set(t, Return(me, "InvalidRegisterState"))
       ELSE Set(t, [me EXCEPT !.pc = "lu_unlock", !.register = candidate, !.k = 0,
                              !.lowest_items = lowest,
                              !.lowest_utilized_register = candidate])
    /\ UNCHANGED <<registers, lock, register_map, calls>>

\* Store.getAllRegisterState: state[register.register_id] = register.getRegisterState()
StateRead(t) ==
    LET me == thread[t] IN
    /\ me.pc = "gs_read"
    /\ Set(t, [me EXCEPT !.state = MapPut(me.state, me.k, getRegisterState(registers[me.k])),
                         !.k = IF me.k + 1 < NumRegisters THEN me.k + 1 ELSE 0,
                         !.pc = IF me.k + 1 < NumRegisters THEN "gs_read" ELSE "gs_unlock"])
    /\ UNCHANGED <<registers, lock, register_map, calls>>

\* Store.unlockRegisters: one register.unlockRegister() of the loop; after the last
\* one getLeastUtilizedRegister returns its register, getAllRegisterState its state
UnlockRegisters(t) ==
    LET me == thread[t] IN
    /\ me.pc \in {"lu_unlock", "gs_unlock"}
    /\ lock' = [lock EXCEPT ![me.k] = Free]
    /\ IF me.k + 1 < NumRegisters
       THEN Set(t, [me EXCEPT !.k = me.k + 1])
       ELSE IF me.pc = "lu_unlock"
       THEN Set(t, [me EXCEPT !.k = 0, !.pc = "add_lock"])
       ELSE Set(t, Return(me, "ok"))
    /\ UNCHANGED <<registers, register_map, calls>>

\* Register.addItemToCart: self.lockRegister()
AddItemLock(t) ==
    LET me == thread[t] IN
    /\ me.pc = "add_lock"
    /\ lock[me.register] = Free
    /\ lock' = [lock EXCEPT ![me.register] = t]
    /\ Set(t, [me EXCEPT !.pc = "add_body"])
    /\ UNCHANGED <<registers, register_map, calls>>

\* Register.addItemToCart: the cart is extended or created
AddItemBody(t) ==
    LET me == thread[t] IN
    /\ me.pc = "add_body"
    /\ registers' = [registers EXCEPT ![me.register] =
                        addItemToCart(@, me.customer_id, me.item_id)]
    /\ Set(t, [me EXCEPT !.pc = "add_unlock"])
    /\ UNCHANGED <<lock, register_map, calls>>

\* Register.addItemToCart: self.unlockRegister(); on the sticky path assignItem returns
AddItemUnlock(t) ==
    LET me == thread[t] IN
    /\ me.pc = "add_unlock"
    /\ lock' = [lock EXCEPT ![me.register] = Free]
    /\ IF me.first
       THEN Set(t, [me EXCEPT !.pc = "ai_put"])
       ELSE Set(t, Return(me, "ok"))
    /\ UNCHANGED <<registers, register_map, calls>>

\* assignItem that does not record the register of a new customer
AssignItemPutSkipped(t) ==
    LET me == thread[t] IN
    /\ me.pc = "ai_put"
    /\ Set(t, Return(me, "ok"))
    /\ UNCHANGED <<registers, lock, register_map, calls>>

\* Store.assignItem: self.register_map[customer_id] = register
AssignItemPut(t) ==
    LET me == thread[t] IN
    /\ me.pc = "ai_put"
    /\ register_map' = MapPut(register_map, me.customer_id, me.register)
    /\ Set(t, Return(me, "ok"))
    /\ UNCHANGED <<registers, lock, calls>>

\* checkoutCustomer over a register_map that creates the entry it is asked for
\* (a defaultdict): the failed lookup leaves an entry behind
CheckoutInDefaulting(t) ==
    LET me == thread[t] IN
    /\ me.pc = "co_in"
    /\ IF me.customer_id \in DOMAIN register_map
       THEN /\ Set(t, [me EXCEPT !.pc = "co_get"])
            /\ register_map' = register_map
       ELSE /\ Set(t, Return(me, "NoCartToCheckout"))
            /\ register_map' = MapPut(register_map, me.customer_id, 0)
    /\ UNCHANGED <<registers, lock, calls>>

\* Store.checkoutCustomer: if (customer_id in self.register_map) ... else raise
CheckoutIn(t) ==
    LET me == thread[t] IN
    /\ me.pc = "co_in"
    /\ IF me.customer_id \in DOMAIN register_map
       THEN Set(t, [me EXCEPT !.pc = "co_get"])
       ELSE Set(t, Return(me, "NoCartToCheckout"))
    /\ UNCHANGED <<registers, lock, register_map, calls>>

\* Store.checkoutCustomer: register = self.register_map[customer_id]
CheckoutGet(t) ==
    LET me == thread[t] IN
    /\ me.pc = "co_get"
    /\ IF me.customer_id \in DOMAIN register_map
       THEN Set(t, [me EXCEPT !.pc = "cc_lock",
                              !.register = register_map[me.customer_id]])
       ELSE Set(t, Return(me, "KeyError"))
    /\ UNCHANGED <<registers, lock, register_map, calls>>

\* Register.checkoutCart: self.lockRegister()
CheckoutCartLock(t) ==
    LET me == thread[t] IN
    /\ me.pc = "cc_lock"
    /\ lock[me.register] = Free
    /\ lock' = [lock EXCEPT ![me.register] = t]
    /\ Set(t, [me EXCEPT !.pc = "cc_body"])
    /\ UNCHANGED <<registers, register_map, calls>>

\* Register.checkoutCart: the cart is deleted, or the exception is raised
\* (the raise leaves the method before self.unlockRegister())
CheckoutCartBody(t) ==
    LET me == thread[t] IN
    /\ me.pc = "cc_body"
    /\ IF HasCart(registers[me.register], me.customer_id)
       THEN /\ registers' = [registers EXCEPT ![me.register] =
                                checkoutCart(@, me.customer_id)]
            /\ Set(t, [me EXCEPT !.pc = "cc_unlock"])
       ELSE /\ registers' = registers
            /\ Set(t, Return(me, "CartDoesNotExist"))
    /\ UNCHANGED <<lock, register_map, calls>>

\* Register.checkoutCart: self.unlockRegister()
CheckoutCartUnlock(t) ==
    LET me == thread[t] IN
    /\ me.pc = "cc_unlock"
    /\ lock' = [lock EXCEPT ![me.register] = Free]
    /\ Set(t, [me EXCEPT !.pc = "co_del"])
    /\ UNCHANGED <<registers, register_map, calls>>

\* checkoutCustomer that keeps the routing entry of the customer
CheckoutDelSkipped(t) ==
    LET me == thread[t] IN
    /\ me.pc = "co_del"
    /\ Set(t, Return(me, "ok"))
    /\ UNCHANGED <<registers, lock, register_map, calls>>

\* Store.checkoutCustomer: del self.register_map[customer_id]
CheckoutDel(t) ==
    LET me == thread[t] IN
    /\ me.pc = "co_del"
    /\ IF me.customer_id \in DOMAIN register_map
       THEN /\ register_map' = MapDel(register_map, me.customer_id)
            /\ Set(t, Return(me, "ok"))
       ELSE /\ register_map' = register_map
            /\ Set(t, Return(me, "KeyError"))
    /\ UNCHANGED <<registers, lock, calls>>

\* ---------------------------------------------------------------- observer

\* the number of items pending in a store
ItemsIn(regs) ==
    LET total[n \in 0 .. NumRegisters] ==
            IF n = 0 THEN 0 ELSE total[n - 1] + getTotalItems(regs[n - 1])
    IN  total[NumRegisters]

\* What a caller can count: successful assignItem calls and the items of the
\* carts that successful checkoutCustomer calls removed (both since the last
\* reset), the store as it was when the running call was made, and the customer
\* whose cart the call before it checked out (0: that call was no successful
\* checkoutCustomer), and the number of items the call before it discarded if
\* that call was a reset (None: it was not).
Observe(t) ==
    LET me == thread[t]
        after == thread'[t]
        called == me.pc = "idle"
        returned == after.pc = "idle"
        ok == returned /\ after.ret = "ok"
        pre_registers == IF called THEN registers ELSE obs.pre_registers
        carts(c) == {r \in RegisterIds : HasCart(pre_registers[r], c)}
        cart_size(c) == IF carts(c) = {} THEN 0
                        ELSE size(CartOf(pre_registers[CHOOSE r \in carts(c) : TRUE], c))
    IN
    obs' = [assigned |-> IF after.op = "reset" THEN 0
                         ELSE IF ok /\ after.op = "assignItem" THEN obs.assigned + 1
                         ELSE obs.assigned,
            removed |-> IF after.op = "reset" THEN 0
                        ELSE IF ok /\ after.op = "checkoutCustomer"
                        THEN obs.removed + cart_size(after.customer_id)
                        ELSE obs.removed,
            pre_map |-> IF called THEN register_map ELSE obs.pre_map,
            pre_registers |-> pre_registers,
            checked_out |-> IF ~called THEN obs.checked_out
                            ELSE IF me.op = "checkoutCustomer" /\ me.ret = "ok"
                            THEN me.customer_id
                            ELSE 0,
            reset_discarded |-> IF ~called THEN obs.reset_discarded
                                ELSE IF me.op = "reset"
                                THEN ItemsIn(obs.pre_registers)
                                ELSE None]

\* ---------------------------------------------------------- specifications

\* Requests arrive one at a time: each runs to its end before the next is made.
\* At most MaxAssigns assignItem calls are made between two resets.
Next ==
    \E t \in SeqThreads :
        \/ (calls < MaxAssigns
              /\ \E c \in Customers, i \in Items : CallAssignItem(t, c, i)) /\ Observe(t)
        \/ (\E c \in Customers : CallCheckoutCustomer(t, c)) /\ Observe(t)
        \/ CallGetAllRegisterState(t) /\ Observe(t)
        \/ Reset(t) /\ Observe(t)
        \/ AssignItemIn(t) /\ Observe(t)
        \/ AssignItemGet(t) /\ Observe(t)
        \/ LockRegisters(t) /\ Observe(t)
        \/ LeastUtilizedScan(t) /\ Observe(t)
        \/ StateRead(t) /\ Observe(t)
        \/ UnlockRegisters(t) /\ Observe(t)
        \/ AddItemLock(t) /\ Observe(t)
        \/ AddItemBody(t) /\ Observe(t)
        \/ AddItemUnlock(t) /\ Observe(t)
        \/ AssignItemPut(t) /\ Observe(t)
        \/ CheckoutIn(t) /\ Observe(t)
        \/ CheckoutGet(t) /\ Observe(t)
        \/ CheckoutCartLock(t) /\ Observe(t)
        \/ CheckoutCartBody(t) /\ Observe(t)
        \/ CheckoutCartUnlock(t) /\ Observe(t)
        \/ CheckoutDel(t) /\ Observe(t)

Spec == Init /\ [][Next]_vars

\* Requests run concurrently, their steps interleaved in any order; no history
\* is kept.
NextConc ==
    \E t \in ConcThreads :
        \/ (calls < MaxConcAssigns
              /\ \E c \in ConcCustomers, i \in ConcItems : CallAssignItem(t, c, i)) /\ UNCHANGED obs
        \/ (\E c \in ConcCustomers : CallCheckoutCustomer(t, c)) /\ UNCHANGED obs
        \/ CallGetAllRegisterState(t) /\ UNCHANGED obs
        \/ Reset(t) /\ UNCHANGED obs
        \/ AssignItemIn(t) /\ UNCHANGED obs
        \/ AssignItemGet(t) /\ UNCHANGED obs
        \/ LockRegisters(t) /\ UNCHANGED obs
        \/ LeastUtilizedScan(t) /\ UNCHANGED obs
        \/ StateRead(t) /\ UNCHANGED obs
        \/ UnlockRegisters(t) /\ UNCHANGED obs
        \/ AddItemLock(t) /\ UNCHANGED obs
        \/ AddItemBody(t) /\ UNCHANGED obs
        \/ AddItemUnlock(t) /\ UNCHANGED obs
        \/ AssignItemPut(t) /\ UNCHANGED obs
        \/ CheckoutIn(t) /\ UNCHANGED obs
        \/ CheckoutGet(t) /\ UNCHANGED obs
        \/ CheckoutCartLock(t) /\ UNCHANGED obs
        \/ CheckoutCartBody(t) /\ UNCHANGED obs
        \/ CheckoutCartUnlock(t) /\ UNCHANGED obs
        \/ CheckoutDel(t) /\ UNCHANGED obs

SpecConc == InitConc /\ [][NextConc]_vars

\* Concurrent requests that run store-wide scans and addItemToCart only:
\* assignItem and getAllRegisterState, no checkoutCustomer.
NextScan ==
    \E t \in ConcThreads :
        \/ (calls < MaxConcAssigns
              /\ \E c \in ConcCustomers, i \in ConcItems : CallAssignItem(t, c, i)) /\ UNCHANGED obs
        \/ CallGetAllRegisterState(t) /\ UNCHANGED obs
        \/ AssignItemIn(t) /\ UNCHANGED obs
        \/ AssignItemGet(t) /\ UNCHANGED obs
        \/ LockRegisters(t) /\ UNCHANGED obs
        \/ LeastUtilizedScan(t) /\ UNCHANGED obs
        \/ StateRead(t) /\ UNCHANGED obs
        \/ UnlockRegisters(t) /\ UNCHANGED obs
        \/ AddItemLock(t) /\ UNCHANGED obs
        \/ AddItemBody(t) /\ UNCHANGED obs
        \/ AddItemUnlock(t) /\ UNCHANGED obs
        \/ AssignItemPut(t) /\ UNCHANGED obs

SpecScan == InitConc /\ [][NextScan]_vars

\* a step of the request that thread t runs
Step(t) ==
    /\ thread[t].pc # "idle"
    /\ \/ AssignItemIn(t) \/ AssignItemGet(t) \/ LockRegisters(t)
       \/ LeastUtilizedScan(t) \/ StateRead(t) \/ UnlockRegisters(t)
       \/ AddItemLock(t) \/ AddItemBody(t) \/ AddItemUnlock(t) \/ AssignItemPut(t)
       \/ CheckoutIn(t) \/ CheckoutGet(t) \/ CheckoutCartLock(t)
       \/ CheckoutCartBody(t) \/ CheckoutCartUnlock(t) \/ CheckoutDel(t)
    /\ UNCHANGED obs

\* The scheduler runs every thread that can take a step, and a thread that
\* waits for a lock gets it if the lock is free again and again.
FairSpec == SpecConc /\ \A t \in ConcThreads : SF_vars(Step(t))

\* ------------------------------------------------------------ properties

\* the registers that hold a cart of customer c
RegistersOf(regs, c) == {r \in RegisterIds : HasCart(regs[r], c)}

\* the empty registers
EmptyRegisters(regs) == {r \in RegisterIds : getTotalItems(regs[r]) = 0}

Lowest(S) == CHOOSE r \in S : \A q \in S : r <= q

\* how often customer c occurs in the sequence s
Occurrences(s, c) == Cardinality({j \in 1 .. Len(s) : s[j] = c})

RECURSIVE TotalUpTo(_, _)
\* the sum of getTotalItems() over the registers 0 .. n-1
TotalUpTo(regs, n) ==
    IF n = 0 THEN 0 ELSE TotalUpTo(regs, n - 1) + getTotalItems(regs[n - 1])

\* thread t has returned from (or raised in) a call of op
Completed(t, op) ==
    thread[t].pc = "idle" /\ thread[t].op = op /\ thread[t].ret # "none"

\* C1: with requests made one at a time on a fresh store, whenever no call is
\* in progress register_map[c] is r exactly if c is a key of register r's
\* customer_cart_map, for every customer c and register r.
C1_RoutingMatchesCarts ==
    Quiescent =>
        \A c \in Customers, r \in RegisterIds :
            (c \in DOMAIN register_map /\ register_map[c] = r) <=> HasCart(registers[r], c)

\* a checkoutCustomer has succeeded and another customer still has a cart
C1_Witness ==
    /\ Completed(1, "checkoutCustomer")
    /\ thread[1].ret = "ok"
    /\ DOMAIN register_map # {}

\* C2: under any interleaving of concurrent requests a customer_id is a key of
\* at most one Register's customer_cart_map.
C2_AtMostOneRegister ==
    \A c \in Customers : Cardinality(RegistersOf(registers, c)) <= 1

\* C3: an assignItem for a customer whose cart was on register r when the call
\* was made succeeds, appends the item to that cart on r, leaves every other
\* register as it was and the customer routed to r.
C3_StickyRouting ==
    \A t \in SeqThreads :
        Completed(t, "assignItem") =>
            LET c == thread[t].customer_id IN
            \A r \in RegistersOf(obs.pre_registers, c) :
                /\ thread[t].ret = "ok"
                /\ HasCart(registers[r], c)
                /\ CartOf(registers[r], c).items =
                       Append(CartOf(obs.pre_registers[r], c).items, thread[t].item_id)
                /\ \A q \in RegisterIds \ {r} : registers[q] = obs.pre_registers[q]
                /\ c \in DOMAIN register_map
                /\ register_map[c] = r

\* a later assignItem went to the customer's register although another
\* register held fewer items when the call was made
C3_Witness ==
    /\ Completed(1, "assignItem")
    /\ \E r \in RegistersOf(obs.pre_registers, thread[1].customer_id) :
           \E q \in RegisterIds :
               getTotalItems(obs.pre_registers[q]) < getTotalItems(obs.pre_registers[r])

\* C4: with requests made one at a time, once the scan of
\* getLeastUtilizedRegister has chosen its register and until the item is added
\* to it: if some register has no pending items, the chosen register is the
\* empty register with the lowest register_id.
C4_EmptyRegisterFirst ==
    \A t \in SeqThreads :
        (thread[t].first /\ thread[t].pc \in {"lu_unlock", "add_lock", "add_body"}) =>
            (EmptyRegisters(registers) # {} =>
                thread[t].register = Lowest(EmptyRegisters(registers)))

\* the first item of a new customer is about to be added to an empty register
\* that follows a register with pending items
C4_Witness ==
    /\ thread[1].first
    /\ thread[1].pc = "add_body"
    /\ thread[1].register > 0
    /\ registers[thread[1].register] = <<>>
    /\ getTotalItems(registers[0]) > 1

\* C5: after a successful checkoutCustomer(c), c is in neither register_map nor
\* any register's customer_cart_map; and a checkoutCustomer(c) made right after
\* a successful checkoutCustomer(c) fails with the no-cart error.
C5_CheckoutRemoves ==
    \A t \in SeqThreads :
        Completed(t, "checkoutCustomer") =>
            /\ thread[t].ret = "ok" =>
                   /\ thread[t].customer_id \notin DOMAIN register_map
                   /\ RegistersOf(registers, thread[t].customer_id) = {}
            /\ obs.checked_out = thread[t].customer_id =>
                   thread[t].ret = "NoCartToCheckout"

\* the second of two consecutive checkoutCustomer calls for one customer has
\* failed, while another customer has a cart
C5_Witness ==
    /\ Completed(1, "checkoutCustomer")
    /\ obs.checked_out = thread[1].customer_id
    /\ thread[1].ret = "NoCartToCheckout"
    /\ DOMAIN register_map # {}

\* C6: a checkoutCustomer that fails leaves register_map and every register's
\* carts (with their items) as they were when the call was made.
C6_FailedCheckoutChangesNothing ==
    \A t \in SeqThreads :
        (Completed(t, "checkoutCustomer") /\ thread[t].ret # "ok") =>
            /\ register_map = obs.pre_map
            /\ registers = obs.pre_registers

\* a checkoutCustomer has failed on a store that holds carts
C6_Witness ==
    /\ Completed(1, "checkoutCustomer")
    /\ thread[1].ret = "NoCartToCheckout"
    /\ DOMAIN register_map # {}
    /\ \E r \in RegisterIds : getTotalItems(registers[r]) > 1

\* C7: a thread whose call has returned or raised holds no Register's lock.
C7_LockReleasedOnExit ==
    \A t \in DOMAIN thread, r \in RegisterIds :
        thread[t].pc = "idle" => lock[r] # t

\* C8: every call that has been made eventually returns or raises.
C8_EveryCallCompletes ==
    \A t \in ConcThreads : (thread[t].pc # "idle") ~> (thread[t].pc = "idle")

\* C9: whenever no call is in progress, the sum of getTotalItems() over all
\* registers is the number of successful assignItem calls since the last reset
\* minus the number of items in the carts that successful checkoutCustomer
\* calls removed since then.
C9_ItemConservation ==
    Quiescent => TotalUpTo(registers, NumRegisters) = obs.assigned - obs.removed

\* items were assigned, a cart of more than one item was checked out and items
\* are still pending
C9_Witness ==
    /\ Quiescent
    /\ obs.removed > 1
    /\ obs.assigned > obs.removed

\* C10: for every register, the sequence getAllRegisterState() returned for it
\* is as long as the register's getTotalItems(), holds each customer_id as
\* often as that customer's cart on the register has items, and equal entries
\* are contiguous.
C10_StateMatchesCarts ==
    \A t \in SeqThreads :
        (Completed(t, "getAllRegisterState") /\ thread[t].ret = "ok") =>
            \A r \in RegisterIds :
                /\ r \in DOMAIN thread[t].state
                /\ LET s == thread[t].state[r] IN
                   /\ Len(s) = getTotalItems(registers[r])
                   /\ \A c \in Customers :
                          Occurrences(s, c) =
                              IF HasCart(registers[r], c)
                              THEN size(CartOf(registers[r], c)) ELSE 0
                   /\ \A i, j \in 1 .. Len(s) :
                          (i < j /\ s[i] = s[j]) => \A k \in i .. j : s[k] = s[i]

\* getAllRegisterState has returned a sequence that holds the two items of one
\* cart followed by the item of another
C10_Witness ==
    /\ Completed(1, "getAllRegisterState")
    /\ thread[1].ret = "ok"
    /\ \E r \in DOMAIN thread[1].state :
           LET s == thread[1].state[r] IN
           Len(s) = 3 /\ s[1] = s[2] /\ s[2] # s[3]

\* C11: a getAllRegisterState() made right after a reset(), whatever the reset
\* discarded, returns a mapping whose keys are exactly the register ids
\* 0 .. N-1 and whose values are all the empty sequence, and register_map is
\* empty.
C11_ResetEmptiesStore ==
    \A t \in SeqThreads :
        (Completed(t, "getAllRegisterState") /\ obs.reset_discarded # None) =>
            /\ thread[t].ret = "ok"
            /\ DOMAIN thread[t].state = RegisterIds
            /\ \A r \in RegisterIds : thread[t].state[r] = <<>>
            /\ register_map = EmptyMap

\* getAllRegisterState has returned after a reset that discarded carts
C11_Witness ==
    /\ Completed(1, "getAllRegisterState")
    /\ obs.reset_discarded # None
    /\ obs.reset_discarded > 1

\* the lowest of the totals of the registers in S
LowestTotal(regs, S) ==
    LET totals == {getTotalItems(regs[r]) : r \in S}
    IN  CHOOSE n \in totals : \A m \in totals : n <= m

\* C12: while getLeastUtilizedRegister or getAllRegisterState reads the
\* registers it holds every Register's lock, and it releases none before its
\* last read; addItemToCart and checkoutCart change a register only while they
\* hold its lock, so none does during a scan; and what the scan has read is
\* what the registers hold at that moment.
C12_ScanHoldsAllLocks ==
    \A t \in ConcThreads :
        LET me == thread[t] IN
        /\ me.pc \in {"lu_scan", "gs_read"} =>
               /\ \A r \in RegisterIds : lock[r] = t
               /\ \A u \in ConcThreads :
                      thread[u].pc \notin {"add_body", "add_unlock", "cc_body", "cc_unlock"}
        /\ me.pc \in {"lu_unlock", "gs_unlock"} =>
               \A r \in RegisterIds : r >= me.k => lock[r] = t
        /\ me.pc \in {"add_body", "add_unlock", "cc_body", "cc_unlock"} =>
               lock[me.register] = t
        /\ me.pc = "gs_read" =>
               /\ DOMAIN me.state = 0 .. (me.k - 1)
               /\ \A r \in DOMAIN me.state : me.state[r] = getRegisterState(registers[r])
        /\ (me.pc = "gs_unlock" /\ me.k = 0) =>
               \A r \in RegisterIds : me.state[r] = getRegisterState(registers[r])
        /\ (me.pc = "lu_scan" /\ me.k > 0) =>
               /\ me.lowest_items = LowestTotal(registers, 0 .. (me.k - 1))
               /\ me.lowest_items > 0
        /\ (me.pc = "lu_unlock" /\ me.k = 0) =>
               \/ getTotalItems(registers[me.register]) = 0
               \/ getTotalItems(registers[me.register]) = LowestTotal(registers, RegisterIds)

\* getAllRegisterState has read a register with pending items and not yet the
\* next one, while another thread waits for a register's lock to change it
C12_Witness ==
    \E t, u \in ConcThreads :
        /\ thread[t].pc = "gs_read"
        /\ thread[t].k = 1
        /\ thread[t].state[0] # <<>>
        /\ thread[u].pc \in {"add_lock", "cc_lock"}

\* thread t is about to acquire a lock: the register whose lock it asks for
Wanted(t) ==
    IF thread[t].pc \in {"lu_lock", "gs_lock"} THEN thread[t].k
    ELSE IF thread[t].pc \in {"add_lock", "cc_lock"} THEN thread[t].register
    ELSE None

\* thread t waits for a lock that thread u holds
Waits(t, u) == Wanted(t) # None /\ lock[Wanted(t)] = u

\* C13: lockRegisters takes the register locks in ascending register_id order
\* (a scan that has reached register k holds exactly the locks of the registers
\* below k), so with concurrent scans and addItemToCart calls no two threads
\* wait for a lock the other holds, and whenever a request is running some
\* running request can take its next step.
C13_NoDeadlock ==
    /\ \A t \in ConcThreads :
           thread[t].pc \in {"lu_lock", "gs_lock"} =>
               \A r \in RegisterIds : (lock[r] = t) <=> (r < thread[t].k)
    /\ \A t, u \in ConcThreads : ~(Waits(t, u) /\ Waits(u, t))
    /\ (\E t \in ConcThreads : thread[t].pc # "idle") =>
           \E t \in ConcThreads :
               /\ thread[t].pc # "idle"
               /\ Wanted(t) # None => lock[Wanted(t)] = Free

\* getAllRegisterState waits for register 0's lock while a concurrent
\* getLeastUtilizedRegister holds it and has not yet taken register 1's
C13_Witness ==
    \E t, u \in ConcThreads :
        /\ thread[t].pc = "gs_lock"
        /\ Waits(t, u)
        /\ thread[u].pc = "lu_lock"
        /\ thread[u].k = 1

\* thread t runs assignItem for a customer it found in register_map
Sticky(t) ==
    /\ thread[t].op = "assignItem"
    /\ thread[t].pc \notin {"idle", "ai_in"}
    /\ ~thread[t].first

\* C14: assignItem for a customer found in register_map never enters the
\* store-wide scan; the only lock it acquires is the lock of the register that
\* register_map gave for the customer, and when that lock is free its
\* addItemToCart can take it whatever the state of the other locks.
C14_StickyTakesOneLock ==
    /\ [](\A t \in ConcThreads :
            Sticky(t) =>
              /\ thread[t].pc \in {"ai_get", "add_lock", "add_body", "add_unlock"}
              /\ thread[t].pc = "add_lock" =>
                   /\ Wanted(t) = thread[t].register
                   /\ lock[thread[t].register] = Free => ENABLED AddItemLock(t))
    /\ [][\A t \in ConcThreads :
            Sticky(t) =>
              /\ (thread[t].pc = "ai_get" /\ thread'[t].pc # "ai_get"
                    /\ thread[t].customer_id \in DOMAIN register_map) =>
                     /\ thread'[t].pc = "add_lock"
                     /\ thread'[t].register = register_map[thread[t].customer_id]
              /\ \A r \in RegisterIds :
                     (lock'[r] = t /\ lock[r] # t) =>
                         /\ thread[t].pc = "add_lock"
                         /\ r = thread[t].register]_vars

\* a known customer's assignItem is inside addItemToCart on its register
\* while another thread holds the lock of another register
C14_Witness ==
    \E t, u \in ConcThreads, r \in RegisterIds :
        /\ Sticky(t)
        /\ thread[t].pc = "add_body"
        /\ r # thread[t].register
        /\ u # t
        /\ lock[r] = u

\* the registers whose total-items count is the lowest of the pool
LeastUtilized(regs) ==
    {r \in RegisterIds : getTotalItems(regs[r]) = LowestTotal(regs, RegisterIds)}

\* C15: with requests made one at a time, once the scan of
\* getLeastUtilizedRegister has chosen its register and until the item is added
\* to it: if no register is empty, the chosen register has the minimum
\* total-items count of the pool and is the lowest register_id among the
\* registers with that count.
C15_LeastUtilizedLowestId ==
    \A t \in SeqThreads :
        (thread[t].first /\ thread[t].pc \in {"lu_unlock", "add_lock", "add_body"}) =>
            (EmptyRegisters(registers) = {} =>
                /\ thread[t].register \in LeastUtilized(registers)
                /\ thread[t].register = Lowest(LeastUtilized(registers)))

\* no register is empty, two registers tie on the minimum count, and the scan
\* has chosen the first of them
C15_Witness ==
    /\ thread[1].first
    /\ thread[1].pc = "add_lock"
    /\ EmptyRegisters(registers) = {}
    /\ \E r \in LeastUtilized(registers) : r > thread[1].register

\* C16: on the step that completes a checkoutCustomer, successful or failed,
\* also with a concurrent checkoutCustomer of the same customer: a call that
\* fails in the register's checkoutCart leaves register_map as it was, and in
\* the state the call leaves register_map does not map the call's customer to a
\* register whose customer_cart_map lacks that customer.
C16_CheckoutIsOneUnit ==
    [][\A t \in ConcThreads :
          (thread[t].op = "checkoutCustomer" /\ thread[t].pc # "idle"
             /\ thread'[t].pc = "idle") =>
              /\ thread'[t].ret = "CartDoesNotExist" => register_map' = register_map
              /\ thread[t].customer_id \in DOMAIN register_map' =>
                     HasCart(registers'[register_map'[thread[t].customer_id]],
                             thread[t].customer_id)]_vars

\* C17: no request ends with the "Invalid register state" exception; when the
\* loop of getLeastUtilizedRegister is left the register it has selected is a
\* register of the pool, and when getLeastUtilizedRegister has returned the
\* thread holds none of the register locks.
C17_ScanSelectsCandidate ==
    \A t \in SeqThreads :
        /\ thread[t].ret # "InvalidRegisterState"
        /\ (thread[t].first /\ thread[t].pc \in {"lu_unlock", "add_lock"}) =>
               thread[t].register \in RegisterIds
        /\ (thread[t].first /\ thread[t].pc = "add_lock") =>
               \A r \in RegisterIds : lock[r] = Free

\* getLeastUtilizedRegister has returned after a scan that met no empty
\* register and ran to the end of the pool
C17_Witness ==
    /\ thread[1].first
    /\ thread[1].pc = "add_lock"
    /\ \A r \in RegisterIds : getTotalItems(registers[r]) > 0
    /\ thread[1].lowest_items < maxsize

\* customer c has a cart in a register that register_map does not give for c
Orphan(regs, map, c) ==
    \E r \in RegisterIds :
        HasCart(regs[r], c) /\ ~(c \in DOMAIN map /\ map[c] = r)

\* C18: on the step that completes an assignItem(c, _) which found c in
\* register_map, when a checkoutCustomer(c) of another thread has completed
\* successfully: in the state the step leaves no register holds a cart of c
\* unless register_map maps c to that register.
C18_NoOrphanCart ==
    [][\A t, u \in ConcThreads :
          (/\ Sticky(t)
           /\ thread[t].pc = "add_unlock"
           /\ thread'[t].pc = "idle"
           /\ u # t
           /\ Completed(u, "checkoutCustomer")
           /\ thread[u].ret = "ok"
           /\ thread[u].customer_id = thread[t].customer_id) =>
              ~Orphan(registers', register_map', thread[t].customer_id)]_vars

\* C19: when the only two assignItem calls made on a fresh store were made by
\* the two threads for two different customers, both have completed and both
\* customers are in register_map, the two customers are on different registers
\* (each first item went to a register that was empty when it was added).
C19_FirstAssignmentsSpread ==
    (/\ Quiescent
     /\ calls = 2
     /\ \A t \in ConcThreads : Completed(t, "assignItem") /\ thread[t].ret = "ok"
     /\ thread[1].customer_id # thread[2].customer_id
     /\ \A t \in ConcThreads : thread[t].customer_id \in DOMAIN register_map) =>
        register_map[thread[1].customer_id] # register_map[thread[2].customer_id]

\* the carts of customer c: each with its register and its items in order
CartsOf(regs, c) ==
    {<<r, CartOf(regs[r], c).items>> : r \in RegistersOf(regs, c)}

\* C20: with requests made one at a time, a completed assignItem(c, item) or
\* checkoutCustomer(c) leaves every other customer's cart (register, items and
\* their order) and register_map entry as they were when the call was made; a
\* successful assignItem leaves c with one cart whose items are the items it
\* had, in their order, followed by item; and in every state every cart in
\* every register holds at least one item.
C20_OnlyOwnCartChanges ==
    /\ \A r \in RegisterIds : \A j \in 1 .. Len(registers[r]) :
           size(registers[r][j]) >= 1
    /\ \A t \in SeqThreads :
           (Completed(t, "assignItem") \/ Completed(t, "checkoutCustomer")) =>
               LET c == thread[t].customer_id
                   before == CartsOf(obs.pre_registers, c)
               IN
               /\ \A d \in Customers \ {c} :
                      /\ CartsOf(registers, d) = CartsOf(obs.pre_registers, d)
                      /\ (d \in DOMAIN register_map) <=> (d \in DOMAIN obs.pre_map)
                      /\ d \in DOMAIN register_map => register_map[d] = obs.pre_map[d]
               /\ (thread[t].op = "assignItem" /\ thread[t].ret = "ok") =>
                      IF before = {}
                      THEN \E r \in RegisterIds :
                               CartsOf(registers, c) = {<<r, <<thread[t].item_id>>>>}
                      ELSE CartsOf(registers, c) =
                               {<<b[1], Append(b[2], thread[t].item_id)>> : b \in before}

\* a successful checkoutCustomer has removed the first cart of a register that
\* held another customer's cart after it
C20_Witness ==
    /\ Completed(1, "checkoutCustomer")
    /\ thread[1].ret = "ok"
    /\ \E r \in RegisterIds :
           /\ Len(obs.pre_registers[r]) > 1
           /\ obs.pre_registers[r][1].customer_id = thread[1].customer_id
           /\ registers[r] # <<>>

====
